---- MODULE Spec2Model ----
(***************************************************************************)
(* Model of the TOC chunker of llama-index-toc-parser: the PDF chunker     *)
(* builds a tree of TOCNode objects from the outline of a document         *)
(* (_process_outline), resolves page spans and page contents               *)
(* (_set_end_pages_and_content) and flattens the tree to a list of text    *)
(* nodes (get_all_nodes, get_text_nodes).                                  *)
(*                                                                         *)
(* A page position is a 0-based page index.  A content string is modelled  *)
(* as the sequence of the page indices whose text was appended to it       *)
(* (each page contributes page.get_text() + "\n"); `blank` is the set of   *)
(* pages whose text is empty or whitespace only, so that str.strip() of a  *)
(* content is non-empty iff it holds a page outside `blank`.               *)
(* A TOCNode object is identified by its creation number; the root is 0.   *)
(*                                                                         *)
(* The module also models DocumentGraph (add_node, add_child) as a second  *)
(* state machine, SpecGraph, over the variables graph_nodes, root_id and   *)
(* call, and the context path of a node over the chunker's tree.           *)
(***************************************************************************)
EXTENDS Integers, Sequences, FiniteSets, TLC

MaxPages == 3
MaxToc == 3
MaxLevel == 3
MaxGraphNodes == 3
MaxEdges == 2
MaxChunks == 2
MaxCalls == 2

Max(a, b) == IF a >= b THEN a ELSE b
Min(a, b) == IF a <= b THEN a ELSE b

\* Optional[...] values: None or a present value
None == << >>
Some(v) == << v >>
IsSome(o) == o # None
Get(o) == o[1]

\* distinct heading titles, the i-th TOC entry carries Titles[i]
Titles == << "A", "B", "C", "D", "E", "F" >>
RootTitle == "Document Root"

VARIABLES
    step,        \* "new", "loaded", "built", "done"
    page_count,  \* doc.page_count
    blank,       \* pages whose get_text() is whitespace only
    toc,         \* doc.get_toc(): sequence of [level, title, page]
    nodes,       \* the TOCNode objects, by creation number; nodes[0] is root_node
    text_nodes,  \* the list returned by get_text_nodes
    graph_nodes, \* DocumentGraph.nodes: node id -> DocumentNode
    root_id,     \* DocumentGraph.root_id
    call,        \* the last DocumentGraph call: operation, arguments, result
    dl,          \* chunk_document_by_toc_to_text_nodes: position and locals
    temp_files   \* the temporary files that exist on disk

\* the chunker's state and the document graph's state
cvars == << step, page_count, blank, toc, nodes, text_nodes >>
gvars == << graph_nodes, root_id, call >>
dvars == << dl, temp_files >>

vars == << step, page_count, blank, toc, nodes, text_nodes,
           graph_nodes, root_id, call, dl, temp_files >>

----------------------------------------------------------------------------
(* TOCNode *)

\* a TOCNode that ignores the level it is given
TOCNode_LevelZero(title, page_num, level, parent) ==
    [ title |-> title, page_num |-> page_num, level |-> 0,
      parent |-> parent, children |-> << >>, content |-> << >>,
      end_page |-> None ]

TOCNode(title, page_num, level, parent) ==
    [ title |-> title, page_num |-> page_num, level |-> level,
      parent |-> parent, children |-> << >>, content |-> << >>,
      end_page |-> None ]

NodeIds(ns) == DOMAIN ns

\* add_child that sets the back link but never stores the child
add_child_NotStored(ns, parent_id, child_id) ==
    [ ns EXCEPT ![child_id].parent = Some(parent_id) ]

\* parent.add_child(child): append to children, set the child's parent
add_child(ns, parent_id, child_id) ==
    [ ns EXCEPT ![parent_id].children = Append(@, child_id),
                ![child_id].parent = Some(parent_id) ]

\* a new TOCNode object joins the heap under the next creation number
NewId(ns) == Cardinality(DOMAIN ns)

Alloc(ns, node) == [ i \in (DOMAIN ns) \cup { NewId(ns) } |->
                        IF i \in DOMAIN ns THEN ns[i] ELSE node ]

----------------------------------------------------------------------------
(* _process_outline *)

\* PyMuPDF pages are 1-based, the tree uses 0-based pages
AdjustPage(page_num) == IF page_num > 0 THEN page_num - 1 ELSE 0

\* "Only process items that match our current tree level"
MatchesLevel(item_level, level) == item_level = level

\* an item after the current one is collected as its child
IsDeeper(item_level, current_item_level_from_toc) ==
    item_level > current_item_level_from_toc

\* the while loop over j: the first index after i that is not deeper than
\* the current item (or Len + 1)
RECURSIVE ChildrenEnd(_, _, _)
ChildrenEnd(toc_items, j, current_level) ==
    IF j > Len(toc_items) THEN j
    ELSE IF IsDeeper(toc_items[j].level, current_level)
         THEN ChildrenEnd(toc_items, j + 1, current_level)
         ELSE j

RECURSIVE ProcessItems(_, _, _, _, _, _)
\* the for loop of _process_outline from index i on, with the set of
\* processed indices; returns the heap of nodes
ProcessItems(ns, toc_items, parent_id, level, i, processed_indices) ==
    IF i > Len(toc_items) THEN ns
    ELSE IF i \in processed_indices
    THEN ProcessItems(ns, toc_items, parent_id, level, i + 1, processed_indices)
    ELSE IF MatchesLevel(toc_items[i].level, level)
    THEN LET id == NewId(ns)
             node == TOCNode(toc_items[i].title, AdjustPage(toc_items[i].page),
                             level, Some(parent_id))
             ns1 == add_child(Alloc(ns, node), parent_id, id)
             j == ChildrenEnd(toc_items, i + 1, toc_items[i].level)
             children_toc_items == SubSeq(toc_items, i + 1, j - 1)
             ns2 == IF children_toc_items # << >>
                    THEN ProcessItems(ns1, children_toc_items, id, level + 1,
                                      1, {})
                    ELSE ns1
         IN ProcessItems(ns2, toc_items, parent_id, level, i + 1,
                         processed_indices \cup (i .. (j - 1)))
    ELSE ProcessItems(ns, toc_items, parent_id, level, i + 1, processed_indices)

_process_outline(ns, toc_items, parent_id, level) ==
    IF toc_items = << >> THEN ns
    ELSE ProcessItems(ns, toc_items, parent_id, level, 1, {})

----------------------------------------------------------------------------
(* _extract_content and _set_end_pages_and_content *)

RECURSIVE PageRange(_, _)
\* range(start_page, end_page + 1) as a sequence
PageRange(start_page, end_page) ==
    IF start_page > end_page THEN << >>
    ELSE << start_page >> \o PageRange(start_page + 1, end_page)

InDocument(page_idx, pcount) == 0 <= page_idx /\ page_idx < pcount

\* an extraction that stops after the first page of the range
_extract_content_FirstPageOnly(start_page, end_page, pcount) ==
    IF start_page > end_page THEN << >>
    ELSE SelectSeq(<< start_page >>,
                   LAMBDA page_idx : InDocument(page_idx, pcount))

_extract_content(start_page, end_page, pcount) ==
    IF start_page > end_page THEN << >>
    ELSE SelectSeq(PageRange(start_page, end_page),
                   LAMBDA page_idx : InDocument(page_idx, pcount))

\* index of a node in a list of siblings
IndexOf(siblings, id) == CHOOSE k \in 1 .. Len(siblings) : siblings[k] = id

\* start page of the section after a leaf: the next sibling's page, or the
\* page count when there is no next sibling
NextSectionStartPage(ns, id, pcount) ==
    IF IsSome(ns[id].parent)
    THEN LET siblings == ns[Get(ns[id].parent)].children
             idx == IndexOf(siblings, id)
         IN IF idx < Len(siblings)
            THEN ns[siblings[idx + 1]].page_num
            ELSE pcount
    ELSE pcount

\* the leaf end page without the step back from the next section's start
LeafEndPage_NoStepBack(page_num, next_section_start_page, pcount) ==
    Max(page_num, Min(next_section_start_page, pcount - 1))

LeafEndPage(page_num, next_section_start_page, pcount) ==
    Max(page_num, Min(next_section_start_page - 1, pcount - 1))

\* the preamble running up to and including the first child's page
PreambleContent_ThroughChildPage(page_num, first_child_page, pcount) ==
    IF first_child_page > page_num
    THEN _extract_content(page_num, first_child_page, pcount)
    ELSE << >>

\* content of a non-leaf node: the pages before its first child
PreambleContent(page_num, first_child_page, pcount) ==
    IF first_child_page > page_num
    THEN _extract_content(page_num, first_child_page - 1, pcount)
    ELSE << >>

RECURSIVE _set_end_pages_and_content(_, _, _)
RECURSIVE SetChildren(_, _, _, _, _)

\* the loop over node.children: resolves each child in order and keeps the
\* largest end page; returns << heap, last_child_end_page >>
SetChildren(ns, children, k, last_child_end_page, pcount) ==
    IF k > Len(children) THEN << ns, last_child_end_page >>
    ELSE LET ns1 == _set_end_pages_and_content(ns, children[k], pcount)
             child_end_page == Get(ns1[children[k]].end_page)
         IN SetChildren(ns1, children, k + 1,
                        Max(last_child_end_page, child_end_page), pcount)

_set_end_pages_and_content(ns, id, pcount) ==
    LET node == ns[id] IN
    IF node.children = << >>
    THEN LET end_page == LeafEndPage(node.page_num,
                                     NextSectionStartPage(ns, id, pcount), pcount)
         IN [ ns EXCEPT ![id].end_page = Some(end_page),
                        ![id].content =
                            _extract_content(node.page_num, end_page, pcount) ]
    ELSE LET r == SetChildren(ns, node.children, 1, -1, pcount)
             ns1 == r[1]
             last_child_end_page == r[2]
             end1 == IF last_child_end_page # -1 THEN last_child_end_page
                     ELSE node.page_num
             content1 == PreambleContent(node.page_num,
                                         ns1[node.children[1]].page_num, pcount)
             end2 == IF end1 < node.page_num THEN node.page_num ELSE end1
             content2 == IF end1 < node.page_num /\ content1 = << >>
                         THEN _extract_content(node.page_num, end2, pcount)
                         ELSE content1
         IN [ ns1 EXCEPT ![id].end_page = Some(end2),
                         ![id].content = content2 ]

----------------------------------------------------------------------------
(* build_toc_tree *)

\* the fallback with the page count taken for the last page index
RootFallback_EndIsPageCount(ns, pcount) ==
    [ ns EXCEPT ![0].end_page = Some(pcount),
                ![0].content = @ \o PageRange(0, pcount - 1) ]

\* the no-TOC branch: the root takes every page of the document
RootFallback(ns, pcount) ==
    [ ns EXCEPT ![0].end_page = Some(pcount - 1),
                ![0].content = @ \o PageRange(0, pcount - 1) ]

build_toc_tree(ns, t, pcount) ==
    IF t = << >>
    THEN RootFallback(ns, pcount)
    ELSE _set_end_pages_and_content(_process_outline(ns, t, 0, 1), 0, pcount)

----------------------------------------------------------------------------
(* get_all_nodes and get_text_nodes *)

RECURSIVE collect_nodes(_, _)
RECURSIVE CollectChildren(_, _, _)

CollectChildren(ns, children, k) ==
    IF k > Len(children) THEN << >>
    ELSE collect_nodes(ns, children[k]) \o CollectChildren(ns, children, k + 1)

\* pre-order: the node, then each child's subtree in stored order
collect_nodes(ns, id) == << id >> \o CollectChildren(ns, ns[id].children, 1)

get_all_nodes(ns) == collect_nodes(ns, 0)

\* content.strip() is non-empty
HasText(content, blk) == \E k \in 1 .. Len(content) : content[k] \notin blk

\* the skip applied to every node without text, whatever its title and level
SkipNode_AnyWithoutText(node, blk) == ~HasText(node.content, blk)

\* the skip applied to the Document Root whatever its content
SkipNode_RootAlways(node, blk) == node.title = RootTitle /\ node.level = 0

\* "Skip creating TextNode for Document Root if it has no content"
SkipNode(node, blk) ==
    node.title = RootTitle /\ ~HasText(node.content, blk) /\ node.level = 0

TextNode(ns, id) ==
    [ id_ |-> id, text |-> ns[id].content, title |-> ns[id].title,
      level |-> ns[id].level, start_page_idx |-> ns[id].page_num,
      end_page_idx |-> ns[id].end_page,
      parent |-> ns[id].parent, children |-> ns[id].children ]

get_text_nodes(ns, blk) ==
    LET all_toc_nodes == get_all_nodes(ns)
        kept == SelectSeq(all_toc_nodes, LAMBDA id : ~SkipNode(ns[id], blk))
    IN [ k \in 1 .. Len(kept) |-> TextNode(ns, kept[k]) ]

----------------------------------------------------------------------------
(* DocumentGraph: nodes by id, with parent_id and children_ids.  A node id
   is a natural number; uuid4 yields an id no node carries. *)

DocumentNode(node_id, title, level, page_num) ==
    [ node_id |-> node_id, title |-> title, level |-> level,
      page_num |-> page_num, parent_id |-> None, children_ids |-> << >> ]

\* str(uuid.uuid4())
FreshId(g) == CHOOSE i \in 0 .. Cardinality(DOMAIN g) :
                  i \notin DOMAIN g /\ \A j \in 0 .. (i - 1) : j \in DOMAIN g

\* DocumentGraph.__init__ / _create_root
_create_root(title) ==
    LET root_node == DocumentNode(FreshId(<< >>), title, 0, 0)
    IN [ nodes |-> (root_node.node_id :> root_node), root_id |-> root_node.node_id ]

\* add_node: node_id or a fresh id; the node is stored under its id
DocumentGraph_add_node(g, title, level, page_num, node_id) ==
    LET node == DocumentNode(IF IsSome(node_id) THEN Get(node_id) ELSE FreshId(g),
                             title, level, page_num)
    IN [ nodes |-> (node.node_id :> node) @@ g, ret |-> node.node_id ]

Contains(seq, x) == \E k \in 1 .. Len(seq) : seq[k] = x

\* an add_child that looks up the parent only
DocumentGraph_add_child_ParentOnly(g, parent_id, child_id) ==
    IF parent_id \notin DOMAIN g
    THEN [ nodes |-> g, ret |-> FALSE ]
    ELSE IF ~Contains(g[parent_id].children_ids, child_id)
         THEN [ nodes |-> [ g EXCEPT ![parent_id].children_ids = Append(@, child_id) ],
                ret |-> TRUE ]
         ELSE [ nodes |-> g, ret |-> FALSE ]

\* an add_child without the test for an existing relationship
DocumentGraph_add_child_NoDuplicateTest(g, parent_id, child_id) ==
    IF parent_id \notin DOMAIN g \/ child_id \notin DOMAIN g
    THEN [ nodes |-> g, ret |-> FALSE ]
    ELSE [ nodes |-> [ g EXCEPT ![parent_id].children_ids = Append(@, child_id),
                                ![child_id].parent_id = Some(parent_id) ],
           ret |-> TRUE ]

DocumentGraph_add_child(g, parent_id, child_id) ==
    IF parent_id \notin DOMAIN g \/ child_id \notin DOMAIN g
    THEN [ nodes |-> g, ret |-> FALSE ]
    ELSE IF ~Contains(g[parent_id].children_ids, child_id)
         THEN [ nodes |-> [ g EXCEPT ![parent_id].children_ids = Append(@, child_id),
                                     ![child_id].parent_id = Some(parent_id) ],
                ret |-> TRUE ]
         ELSE [ nodes |-> g, ret |-> FALSE ]

-----------------------------------------------------------------------------
(* chunk_document_by_toc_to_text_nodes on a source that may be a URL: the
   download to a temporary file, the chunker, and the finally clause *)

\* the formats whose URL sources are downloaded to a temporary file, and a
\* format whose URL sources are read into memory
TempFileFormats == { "pdf", "docx", "jupyter" }
Formats == TempFileFormats \cup { "html" }

\* no call in progress; `calls` calls have exited, the last with `outcome`
Idle(calls, outcome) ==
    [ pc |-> "idle", format_type |-> "none", is_url |-> FALSE,
      temp_path |-> None, temp_file_path |-> None, chunks |-> 0,
      raised |-> FALSE, outcome |-> outcome, calls |-> calls ]

\* tempfile.NamedTemporaryFile(delete=False): a file with a new name
NewTempFile(files, calls) == calls + 1

\* the finally clause: unlink the file temp_file_path names, if it exists
Finally(files, temp_file_path) ==
    IF IsSome(temp_file_path) /\ Get(temp_file_path) \in files
    THEN files \ { Get(temp_file_path) }
    ELSE files

-----------------------------------------------------------------------------
(* the chunker as a state machine *)

Levels == 1 .. MaxLevel

\* page numbers of PyMuPDF TOC entries: 1-based, -1 for an entry without a
\* resolvable target
TocPages(pcount) == { -1 } \cup (1 .. pcount)

\* the heading stream comes in non-decreasing position order
Sorted(pg) ==
    \A i \in 1 .. (Len(pg) - 1) : AdjustPage(pg[i]) <= AdjustPage(pg[i + 1])

TocOfLen(n, pcount) ==
    { [ i \in 1 .. n |-> [ level |-> lv[i], title |-> Titles[i], page |-> pg[i] ] ] :
        lv \in [ 1 .. n -> Levels ],
        pg \in { q \in [ 1 .. n -> TocPages(pcount) ] : Sorted(q) } }

\* Only the content of the root is ever tested for text, and it is a run of
\* pages from page 0 on: the blank pages are drawn as such runs (none, the
\* first k, all).
BlankRuns(pcount) == { 0 .. (k - 1) : k \in 0 .. pcount }

Init ==
    /\ step = "new"
    /\ page_count = 0
    /\ blank = {}
    /\ toc = << >>
    /\ nodes = [ i \in { 0 } |-> TOCNode(RootTitle, 0, 0, None) ]
    /\ text_nodes = << >>
    /\ graph_nodes = _create_root(RootTitle).nodes
    /\ root_id = _create_root(RootTitle).root_id
    /\ call = [ op |-> "init" ]
    /\ dl = Idle(0, "none")
    /\ temp_files = {}

\* load_document: fitz.open and doc.get_toc()
LoadDocument ==
    /\ step = "new"
    /\ \E pcount \in 0 .. MaxPages :
       \E n \in 0 .. MaxToc :
       \E t \in TocOfLen(n, pcount) :
       \E blk \in BlankRuns(pcount) :
          /\ page_count' = pcount
          /\ toc' = t
          /\ blank' = blk
    /\ step' = "loaded"
    /\ UNCHANGED << nodes, text_nodes >>
    /\ UNCHANGED << gvars, dvars >>

BuildTocTree ==
    /\ step = "loaded"
    /\ nodes' = build_toc_tree(nodes, toc, page_count)
    /\ step' = "built"
    /\ UNCHANGED << page_count, blank, toc, text_nodes >>
    /\ UNCHANGED << gvars, dvars >>

GetTextNodes ==
    /\ step = "built"
    /\ text_nodes' = get_text_nodes(nodes, blank)
    /\ step' = "done"
    /\ UNCHANGED << page_count, blank, toc, nodes >>
    /\ UNCHANGED << gvars, dvars >>

Next == LoadDocument \/ BuildTocTree \/ GetTextNodes

Spec == Init /\ [][Next]_vars

-----------------------------------------------------------------------------
(* the chunker on any outline: _process_outline takes the entries as
   get_toc() hands them over, whatever their order and their levels *)

AnyLevels == 0 .. MaxLevel

AnyTocOfLen(n, pcount) ==
    { [ i \in 1 .. n |-> [ level |-> lv[i], title |-> Titles[i], page |-> pg[i] ] ] :
        lv \in [ 1 .. n -> AnyLevels ],
        pg \in [ 1 .. n -> 1 .. pcount ] }

LoadAnyDocument ==
    /\ step = "new"
    /\ \E pcount \in 1 .. MaxPages :
       \E n \in 1 .. MaxToc :
       \E t \in AnyTocOfLen(n, pcount) :
          /\ page_count' = pcount
          /\ toc' = t
          /\ blank' = {}
    /\ step' = "loaded"
    /\ UNCHANGED << nodes, text_nodes >>
    /\ UNCHANGED << gvars, dvars >>

NextAnyStream == LoadAnyDocument \/ BuildTocTree \/ GetTextNodes

SpecAnyStream == Init /\ [][NextAnyStream]_vars

-----------------------------------------------------------------------------
(* build_toc_tree called a second time on the same chunker: the document
   is loaded already, the outline is processed under the same root_node *)

BuildTocTreeAgain ==
    /\ step = "built"
    /\ nodes' = build_toc_tree(nodes, toc, page_count)
    /\ step' = "rebuilt"
    /\ UNCHANGED << page_count, blank, toc, text_nodes >>
    /\ UNCHANGED << gvars, dvars >>

NextRebuild == LoadDocument \/ BuildTocTree \/ BuildTocTreeAgain

SpecRebuild == Init /\ [][NextRebuild]_vars

-----------------------------------------------------------------------------
(* a build during which reading a page fails: load_page / get_text raises
   on the pages of `bad`, and the exception leaves build_toc_tree at once *)

\* _extract_content raises when its range holds a page that cannot be read
ExtractRaises(start_page, end_page, pcount, bad) ==
    \E page_idx \in bad :
        /\ start_page <= page_idx /\ page_idx <= end_page
        /\ InDocument(page_idx, pcount)

RECURSIVE ResolveOrRaise(_, _, _, _)
RECURSIVE ResolveChildrenOrRaise(_, _, _, _, _, _)

\* the loop over node.children, left at the first child that raises
ResolveChildrenOrRaise(ns, children, k, last_child_end_page, pcount, bad) ==
    IF k > Len(children)
    THEN [ ns |-> ns, last |-> last_child_end_page, raised |-> FALSE ]
    ELSE LET r == ResolveOrRaise(ns, children[k], pcount, bad)
         IN IF r.raised
            THEN [ ns |-> r.ns, last |-> last_child_end_page, raised |-> TRUE ]
            ELSE ResolveChildrenOrRaise(r.ns, children, k + 1,
                     Max(last_child_end_page, Get(r.ns[children[k]].end_page)),
                     pcount, bad)

\* _set_end_pages_and_content up to the first extraction that raises: what
\* was assigned before it stays assigned
ResolveOrRaise(ns, id, pcount, bad) ==
    LET node == ns[id] IN
    IF node.children = << >>
    THEN LET end_page == LeafEndPage(node.page_num,
                                     NextSectionStartPage(ns, id, pcount), pcount)
             ns1 == [ ns EXCEPT ![id].end_page = Some(end_page) ]
         IN IF ExtractRaises(node.page_num, end_page, pcount, bad)
            THEN [ ns |-> ns1, raised |-> TRUE ]
            ELSE [ ns |-> [ ns1 EXCEPT ![id].content =
                              _extract_content(node.page_num, end_page, pcount) ],
                   raised |-> FALSE ]
    ELSE LET r == ResolveChildrenOrRaise(ns, node.children, 1, -1, pcount, bad)
         IN IF r.raised THEN [ ns |-> r.ns, raised |-> TRUE ]
            ELSE
            LET end1 == IF r.last # -1 THEN r.last ELSE node.page_num
                first_child_page == r.ns[node.children[1]].page_num
                ns1 == [ r.ns EXCEPT ![id].end_page = Some(end1) ]
                content1 == PreambleContent(node.page_num, first_child_page, pcount)
                end2 == IF end1 < node.page_num THEN node.page_num ELSE end1
                ns2 == [ ns1 EXCEPT ![id].content = content1,
                                    ![id].end_page = Some(end2) ]
            IN IF /\ first_child_page > node.page_num
                  /\ ExtractRaises(node.page_num, first_child_page - 1, pcount, bad)
               THEN [ ns |-> ns1, raised |-> TRUE ]
               ELSE IF end1 < node.page_num /\ content1 = << >>
               THEN IF ExtractRaises(node.page_num, end2, pcount, bad)
                    THEN [ ns |-> ns2, raised |-> TRUE ]
                    ELSE [ ns |-> [ ns2 EXCEPT ![id].content =
                                      _extract_content(node.page_num, end2, pcount) ],
                           raised |-> FALSE ]
               ELSE [ ns |-> ns2, raised |-> FALSE ]

\* the no-TOC branch: the pages read before the first one that raises are
\* in the root's content already
RootFallbackOrRaise(ns, pcount, bad) ==
    LET unreadable == { page_num \in bad : InDocument(page_num, pcount) }
        first_bad == CHOOSE b \in unreadable : \A o \in unreadable : b <= o
    IN IF unreadable = {}
       THEN [ ns |-> RootFallback(ns, pcount), raised |-> FALSE ]
       ELSE [ ns |-> [ ns EXCEPT ![0].end_page = Some(pcount - 1),
                                 ![0].content = @ \o PageRange(0, first_bad - 1) ],
              raised |-> TRUE ]

build_toc_tree_or_raise(ns, t, pcount, bad) ==
    IF t = << >>
    THEN RootFallbackOrRaise(ns, pcount, bad)
    ELSE ResolveOrRaise(_process_outline(ns, t, 0, 1), 0, pcount, bad)

BuildTocTreeOrRaise ==
    /\ step = "loaded"
    /\ \E bad \in SUBSET (0 .. (page_count - 1)) :
          LET r == build_toc_tree_or_raise(nodes, toc, page_count, bad)
          IN /\ nodes' = r.ns
             /\ step' = IF r.raised THEN "failed" ELSE "built"
    /\ UNCHANGED << page_count, blank, toc, text_nodes >>
    /\ UNCHANGED << gvars, dvars >>

\* get_text_nodes on the chunker whose build has raised: self.doc is set,
\* so the tree is flattened as it stands
GetTextNodesAfterFailure ==
    /\ step = "failed"
    /\ text_nodes' = get_text_nodes(nodes, blank)
    /\ step' = "failed_done"
    /\ UNCHANGED << page_count, blank, toc, nodes >>
    /\ UNCHANGED << gvars, dvars >>

NextFailure == LoadDocument \/ BuildTocTreeOrRaise \/ GetTextNodesAfterFailure

SpecFailure == Init /\ [][NextFailure]_vars

-----------------------------------------------------------------------------
(* the document graph as a state machine: any sequence of add_node and
   add_child calls on a new DocumentGraph *)

\* the (title, level, page_num) arguments of add_node
GraphHeadings == { << "A", 1, 1 >> }

\* the number of entries of all children_ids lists
RECURSIVE EdgeCount(_, _)
EdgeCount(g, ids) ==
    IF ids = {} THEN 0
    ELSE LET i == CHOOSE i \in ids : TRUE
         IN Len(g[i].children_ids) + EdgeCount(g, ids \ { i })

\* the ids a caller can pass to add_child; an id is unknown as long as no
\* node carries it
GraphIds == 0 .. (MaxGraphNodes - 1)

\* the node_id argument of add_node: absent, or the one id a caller of a new
\* graph holds, root_id
GraphNodeIdArgs == { None, Some(root_id) }

AddNode ==
    /\ \E h \in GraphHeadings :
       \E node_id \in GraphNodeIdArgs :
          LET r == DocumentGraph_add_node(graph_nodes, h[1], h[2], h[3], node_id)
          IN /\ Cardinality(DOMAIN r.nodes) <= MaxGraphNodes
             /\ graph_nodes' = r.nodes
             /\ call' = [ op |-> "add_node", node_id |-> node_id, ret |-> r.ret ]
    /\ UNCHANGED root_id
    /\ UNCHANGED << cvars, dvars >>

AddChild ==
    /\ \E parent_id \in GraphIds, child_id \in GraphIds :
          LET r == DocumentGraph_add_child(graph_nodes, parent_id, child_id)
          IN /\ EdgeCount(r.nodes, DOMAIN r.nodes) <= MaxEdges
             /\ graph_nodes' = r.nodes
             /\ call' = [ op |-> "add_child", parent_id |-> parent_id,
                          child_id |-> child_id, ret |-> r.ret ]
    /\ UNCHANGED root_id
    /\ UNCHANGED << cvars, dvars >>

NextGraph == AddNode \/ AddChild

SpecGraph == Init /\ [][NextGraph]_vars

-----------------------------------------------------------------------------
(* chunk_document_by_toc_to_text_nodes as a state machine: every step that
   can raise either goes on or raises, and a raise leads to the finally
   clause of the function that is being left *)

\* the call enters the try block with temp_file_path = None; only a URL
\* source of a format in TempFileFormats is downloaded to a file, every other
\* source is read by the step that sets the chunker up
CallChunkDocument ==
    /\ dl.pc = "idle" /\ dl.calls < MaxCalls
    /\ \E format_type \in Formats, is_url \in BOOLEAN :
          dl' = [ dl EXCEPT !.pc = IF is_url /\ format_type \in TempFileFormats
                                   THEN "download" ELSE "chunker",
                            !.format_type = format_type, !.is_url = is_url,
                            !.outcome = "none" ]
    /\ UNCHANGED temp_files
    /\ UNCHANGED << cvars, gvars >>

\* download_*_from_url: requests.get and raise_for_status, then the
\* temporary file is created
RequestAndCreateTempFile ==
    /\ dl.pc = "download"
    /\ \/ /\ dl' = [ dl EXCEPT !.pc = "finally", !.raised = TRUE ]
          /\ UNCHANGED temp_files
       \/ \E chunks \in 0 .. MaxChunks :
             LET temp_path == NewTempFile(temp_files, dl.calls)
             IN /\ temp_files' = temp_files \cup { temp_path }
                /\ dl' = [ dl EXCEPT !.pc = "writing", !.chunks = chunks,
                                      !.temp_path = Some(temp_path) ]
    /\ UNCHANGED << cvars, gvars >>

\* one turn of the loop over response.iter_content: the chunk is written,
\* or reading or writing it raises and the except clause re-raises
WriteChunk ==
    /\ dl.pc = "writing" /\ dl.chunks > 0
    /\ \/ dl' = [ dl EXCEPT !.chunks = @ - 1 ]
       \/ dl' = [ dl EXCEPT !.pc = "finally", !.raised = TRUE ]
    /\ UNCHANGED temp_files
    /\ UNCHANGED << cvars, gvars >>

\* return temp_path: the caller's temp_file_path is assigned
ReturnTempPath ==
    /\ dl.pc = "writing" /\ dl.chunks = 0
    /\ dl' = [ dl EXCEPT !.pc = "chunker", !.temp_file_path = dl.temp_path ]
    /\ UNCHANGED temp_files
    /\ UNCHANGED << cvars, gvars >>

\* with Chunker(...) as chunker: the constructor and __enter__, which loads
\* the document
EnterChunker ==
    /\ dl.pc = "chunker"
    /\ \/ dl' = [ dl EXCEPT !.pc = "build" ]
       \/ dl' = [ dl EXCEPT !.pc = "finally", !.raised = TRUE ]
    /\ UNCHANGED temp_files
    /\ UNCHANGED << cvars, gvars >>

\* chunker.build_toc_tree()
CallBuildTocTree ==
    /\ dl.pc = "build"
    /\ \/ dl' = [ dl EXCEPT !.pc = "flatten" ]
       \/ dl' = [ dl EXCEPT !.pc = "finally", !.raised = TRUE ]
    /\ UNCHANGED temp_files
    /\ UNCHANGED << cvars, gvars >>

\* return chunker.get_text_nodes()
CallGetTextNodes ==
    /\ dl.pc = "flatten"
    /\ \/ dl' = [ dl EXCEPT !.pc = "finally" ]
       \/ dl' = [ dl EXCEPT !.pc = "finally", !.raised = TRUE ]
    /\ UNCHANGED temp_files
    /\ UNCHANGED << cvars, gvars >>

\* the finally clause, then the call returns or raises
LeaveChunkDocument ==
    /\ dl.pc = "finally"
    /\ temp_files' = Finally(temp_files, dl.temp_file_path)
    /\ dl' = Idle(dl.calls + 1, IF dl.raised THEN "raised" ELSE "returned")
    /\ UNCHANGED << cvars, gvars >>

NextDownload ==
    \/ CallChunkDocument \/ RequestAndCreateTempFile \/ WriteChunk
    \/ ReturnTempPath \/ EnterChunker \/ CallBuildTocTree
    \/ CallGetTextNodes \/ LeaveChunkDocument

SpecDownload == Init /\ [][NextDownload]_vars

-----------------------------------------------------------------------------
(* the queries of DocumentGraph.  A query that never returns (a recursion or
   a loop that runs round a cycle) has the result `ends = FALSE`, with the
   nodes it has produced up to the bound after which no acyclic graph of
   this size is still being walked. *)

\* _preorder_traversal: yield the node, then the traversal of each child in
\* children_ids order; `stack` holds the node ids still to be entered
RECURSIVE _preorder_traversal(_, _, _, _)
_preorder_traversal(g, stack, yielded, fuel) ==
    IF stack = << >> THEN [ nodes |-> yielded, ends |-> TRUE ]
    ELSE IF Head(stack) \notin DOMAIN g
    THEN _preorder_traversal(g, Tail(stack), yielded, fuel)
    ELSE IF fuel = 0 THEN [ nodes |-> yielded, ends |-> FALSE ]
    ELSE _preorder_traversal(g, g[Head(stack)].children_ids \o Tail(stack),
                             Append(yielded, Head(stack)), fuel - 1)

\* _traverse_preorder / get_content: from start_node_id, or from the root
_traverse_preorder(g, rid, start_node_id) ==
    LET start_id == IF IsSome(start_node_id) THEN Get(start_node_id) ELSE rid
    IN IF start_id \notin DOMAIN g
       THEN [ nodes |-> << >>, ends |-> TRUE ]
       ELSE _preorder_traversal(g, << start_id >>, << >>, 2 ^ Cardinality(DOMAIN g))

\* the while loop of get_ancestors
RECURSIVE AncestorsLoop(_, _, _, _)
AncestorsLoop(g, current_node, ancestors, fuel) ==
    IF ~IsSome(g[current_node].parent_id)
    THEN [ nodes |-> ancestors, ends |-> TRUE ]
    ELSE IF Get(g[current_node].parent_id) \notin DOMAIN g
    THEN [ nodes |-> ancestors, ends |-> TRUE ]
    ELSE IF fuel = 0 THEN [ nodes |-> ancestors, ends |-> FALSE ]
    ELSE AncestorsLoop(g, Get(g[current_node].parent_id),
                       Append(ancestors, Get(g[current_node].parent_id)), fuel - 1)

DocumentGraph_get_ancestors(g, node_id) ==
    IF node_id \notin DOMAIN g
    THEN [ nodes |-> << >>, ends |-> TRUE ]
    ELSE AncestorsLoop(g, node_id, << >>, Cardinality(DOMAIN g))

\* the page_num argument of add_node
GraphPages == 0 .. 1

AddNodeAt ==
    /\ \E h \in GraphHeadings, page_num \in GraphPages :
          LET r == DocumentGraph_add_node(graph_nodes, h[1], h[2], page_num, None)
          IN /\ Cardinality(DOMAIN r.nodes) <= MaxGraphNodes
             /\ graph_nodes' = r.nodes
             /\ call' = [ op |-> "add_node", node_id |-> None, ret |-> r.ret ]
    /\ UNCHANGED root_id
    /\ UNCHANGED << cvars, dvars >>

GetContent ==
    /\ \E start_node_id \in { None } \cup { Some(i) : i \in GraphIds } :
          call' = [ op |-> "get_content", start_node_id |-> start_node_id,
                    ret |-> _traverse_preorder(graph_nodes, root_id, start_node_id) ]
    /\ UNCHANGED << graph_nodes, root_id >>
    /\ UNCHANGED << cvars, dvars >>

GetAncestors ==
    /\ \E node_id \in GraphIds :
          call' = [ op |-> "get_ancestors", node_id |-> node_id,
                    ret |-> DocumentGraph_get_ancestors(graph_nodes, node_id) ]
    /\ UNCHANGED << graph_nodes, root_id >>
    /\ UNCHANGED << cvars, dvars >>

NextTraversal == AddNodeAt \/ AddChild \/ GetContent \/ GetAncestors

SpecTraversal == Init /\ [][NextTraversal]_vars

TypeOK ==
    /\ step \in { "new", "loaded", "built", "done", "rebuilt", "failed",
                  "failed_done" }
    /\ page_count \in 0 .. MaxPages
    /\ Len(toc) <= MaxToc

----------------------------------------------------------------------------
(* vocabulary of the properties *)

\* build_toc_tree has returned
Built == step \in { "built", "done" }

NonRoot == (DOMAIN nodes) \ { 0 }

Range(f) == { f[x] : x \in DOMAIN f }

\* the nodes created for the i-th heading of the stream
NodesOfHeading(i) == { id \in NonRoot : nodes[id].title = toc[i].title }

\* the heading stream is in non-decreasing position order (every entry has a
\* page of the document)
InOrder ==
    /\ \A i \in 1 .. Len(toc) : toc[i].page >= 1
    /\ \A i \in 1 .. (Len(toc) - 1) : toc[i].page <= toc[i + 1].page

StrictlyIncreasing ==
    /\ \A i \in 1 .. Len(toc) : toc[i].page >= 1
    /\ \A i \in 1 .. (Len(toc) - 1) : toc[i].page < toc[i + 1].page

\* the nearest preceding heading with a strictly smaller level, 0 for the root
SmallerBefore(i) == { j \in 1 .. (i - 1) : toc[j].level < toc[i].level }
NearestSmaller(i) ==
    IF SmallerBefore(i) = {} THEN 0
    ELSE CHOOSE j \in SmallerBefore(i) : \A k \in SmallerBefore(i) : k <= j

TitleOfHeading(j) == IF j = 0 THEN RootTitle ELSE toc[j].title

IsLeaf(id) == nodes[id].children = << >>

\* the pages whose text is part of a node's content
ContentPages(id) == Range(nodes[id].content)

EndPage(id) == Get(nodes[id].end_page)

----------------------------------------------------------------------------
(* C1: every heading becomes a child of the nearest preceding heading with a
   strictly smaller level (the root if there is none) and keeps its level. *)
C1_NearestSmallerLevelParent ==
    (Built /\ InOrder) =>
        \A i \in 1 .. Len(toc) :
            \E id \in NodesOfHeading(i) :
                /\ nodes[id].level = toc[i].level
                /\ IsSome(nodes[id].parent)
                /\ nodes[Get(nodes[id].parent)].title
                       = TitleOfHeading(NearestSmaller(i))

(* C2: k headings with strictly increasing positions give exactly k non-root
   nodes, and the flattened output has one record per heading. *)
C2_OneNodePerHeading ==
    (Built /\ StrictlyIncreasing) =>
        /\ Cardinality(NonRoot) = Len(toc)
        /\ \A i \in 1 .. Len(toc) : Cardinality(NodesOfHeading(i)) = 1
        /\ step = "done" =>
              \A i \in 1 .. Len(toc) :
                 Cardinality({ k \in 1 .. Len(text_nodes) :
                                 text_nodes[k].title = toc[i].title }) = 1

RECURSIVE ParentChain(_, _)
\* the node reached from id by following n parent links (or the root earlier)
ParentChain(id, n) ==
    IF n = 0 \/ ~IsSome(nodes[id].parent) THEN id
    ELSE ParentChain(Get(nodes[id].parent), n - 1)

\* the number of times id is listed among the children of p
TimesListed(p, id) ==
    Cardinality({ k \in 1 .. Len(nodes[p].children) : nodes[p].children[k] = id })

(* C3: the built structure is acyclic and single-rooted: the root has no
   parent, every other node is listed exactly once among the children of
   exactly one node, which is its parent, and following parent links from any
   node reaches the root. *)
C3_AcyclicSingleRooted ==
    Built =>
        /\ nodes[0].parent = None
        /\ \A id \in NonRoot :
              /\ IsSome(nodes[id].parent)
              /\ Get(nodes[id].parent) \in DOMAIN nodes
              /\ \A p \in DOMAIN nodes :
                    TimesListed(p, id) = IF p = Get(nodes[id].parent) THEN 1 ELSE 0
              /\ ParentChain(id, Cardinality(DOMAIN nodes)) = 0
        /\ \A p \in DOMAIN nodes : TimesListed(p, 0) = 0

\* C3's case: a stream with a skipped level and a level decrease has been
\* built into a tree with a nested node
C3_Witness ==
    /\ Built
    /\ Len(toc) = 3
    /\ toc[1].level = 1 /\ toc[2].level = 3 /\ toc[3].level = 2
    /\ \E id \in NonRoot : Get(nodes[id].parent) # 0

\* titles of the nodes in pre-order, the root left out
PreorderTitles ==
    LET all == get_all_nodes(nodes)
    IN [ k \in 1 .. (Len(all) - 1) |-> nodes[all[k + 1]].title ]

StreamTitles == [ i \in 1 .. Len(toc) |-> toc[i].title ]

(* C4: the pre-order flattening of the built tree starts with the root and
   lists the non-root nodes in exactly the order of the heading stream. *)
C4_PreorderIsStreamOrder ==
    (Built /\ InOrder) =>
        /\ get_all_nodes(nodes)[1] = 0
        /\ PreorderTitles = StreamTitles

(* C5: after span resolution every node satisfies end_page >= page_num. *)
C5_EndNotBeforeStart ==
    Built =>
        \A id \in DOMAIN nodes :
            IsSome(nodes[id].end_page) /\ EndPage(id) >= nodes[id].page_num

\* the sibling stored right after id, in a one-element set (empty if none)
NextSibling(id) ==
    IF ~IsSome(nodes[id].parent) THEN {}
    ELSE LET sib == nodes[Get(nodes[id].parent)].children
         IN { sib[k + 1] : k \in { k \in 1 .. (Len(sib) - 1) : sib[k] = id } }

(* C6: a leaf whose next sibling starts on a later page ends on the page
   just before that sibling; the leaf of the last heading of the stream ends
   on the last page of the document. *)
C6_LeafEndsBeforeNextSibling ==
    (Built /\ toc # << >>) =>
        /\ \A id \in NonRoot : \A s \in NextSibling(id) :
              (IsLeaf(id) /\ nodes[s].page_num > nodes[id].page_num)
                 => EndPage(id) = nodes[s].page_num - 1
        /\ (page_count >= 1) =>
              \A id \in NodesOfHeading(Len(toc)) :
                 IsLeaf(id) /\ EndPage(id) = page_count - 1

\* C6's case: a first leaf two pages before its sibling, which is the last
\* heading (the scenario [(1,A,p0),(1,B,p2)] over three pages)
C6_Witness ==
    /\ Built
    /\ page_count = 3
    /\ Len(toc) = 2
    /\ \E a \in NodesOfHeading(1) : \E b \in NodesOfHeading(2) :
          /\ NextSibling(a) = { b }
          /\ IsLeaf(a) /\ nodes[a].page_num = 0 /\ nodes[b].page_num = 2
          /\ EndPage(a) = 1 /\ EndPage(b) = 2

(* C7: a leaf that is the last child of P, where P has a next sibling S on a
   later page, ends like P on the page just before S. *)
C7_LastChildEndsWithParent ==
    (Built /\ InOrder) =>
        \A id \in NonRoot :
            LET P == Get(nodes[id].parent) IN
            \A S \in NextSibling(P) :
                (IsLeaf(id) /\ NextSibling(id) = {}
                 /\ nodes[S].page_num > nodes[id].page_num)
                    => /\ EndPage(id) = nodes[S].page_num - 1
                       /\ EndPage(P) = nodes[S].page_num - 1

(* C8: no page is part of the content of two distinct nodes. *)
C8_ContentOwnedExclusively ==
    (Built /\ InOrder) =>
        \A a, b \in DOMAIN nodes :
            a # b => ContentPages(a) \cap ContentPages(b) = {}

(* C9: the content of an internal node is exactly its preamble, the pages
   from its own page up to, not including, the page of its first child (none
   when the first child starts on the node's page), and its end page is not
   before the end page of any node of its subtree. *)
C9_InternalContentIsPreamble ==
    Built =>
        \A id \in DOMAIN nodes :
            ~IsLeaf(id) =>
                LET first == nodes[id].children[1] IN
                /\ nodes[id].content =
                      PageRange(nodes[id].page_num, nodes[first].page_num - 1)
                /\ (nodes[first].page_num = nodes[id].page_num)
                      => nodes[id].content = << >>
                /\ \A d \in NonRoot :
                      (\E n \in 1 .. Cardinality(DOMAIN nodes) :
                           ParentChain(d, n) = id)
                         => EndPage(id) >= EndPage(d)

\* C9's case: the root with a preamble before a first child on a later page,
\* and that child with a first child of its own on the same page
C9_Witness ==
    /\ Built
    /\ \E a \in NonRoot : \E b \in NonRoot :
          /\ nodes[0].children[1] = a /\ nodes[a].page_num = 2
          /\ nodes[0].content = << 0, 1 >>
          /\ nodes[a].children # << >> /\ nodes[a].children[1] = b
          /\ nodes[b].page_num = 2
          /\ nodes[a].content = << >>
          /\ EndPage(a) = page_count - 1

\* the state of the root after the no-TOC fallback over pages 0 .. N
RootOnly ==
    /\ DOMAIN nodes = { 0 }
    /\ nodes[0].level = 0 /\ nodes[0].title = RootTitle
    /\ nodes[0].children = << >>
    /\ nodes[0].content = PageRange(0, page_count - 1)
    /\ nodes[0].end_page = Some(page_count - 1)

(* C10 as stated: with an empty heading stream over a document of at least
   one page the tree is the root alone with every page as content and the
   last page as end page, and the flattened output is exactly that node. *)
C10_NoTocSingleRoot ==
    (Built /\ toc = << >> /\ page_count >= 1) =>
        /\ RootOnly
        /\ step = "done" =>
              /\ Len(text_nodes) = 1
              /\ text_nodes[1] = TextNode(nodes, 0)

(* C10 amended: as above, but the flattened output is that one node when
   some page of the document has text that is not blank, and is empty when
   the text of every page is blank. *)
C10_NoTocSingleRootUnlessBlank ==
    (Built /\ toc = << >> /\ page_count >= 1) =>
        /\ RootOnly
        /\ step = "done" =>
              IF \E p \in 0 .. (page_count - 1) : p \notin blank
              THEN Len(text_nodes) = 1 /\ text_nodes[1] = TextNode(nodes, 0)
              ELSE text_nodes = << >>

\* C10's case: a three-page document without TOC and with text was flattened
C10_Witness ==
    /\ step = "done"
    /\ toc = << >> /\ page_count = 3 /\ blank = { 0 }
    /\ Len(text_nodes) = 1
    /\ text_nodes[1].text = << 0, 1, 2 >>
    /\ text_nodes[1].end_page_idx = Some(2)

----------------------------------------------------------------------------
(* the flattened output *)

\* the ids of the emitted text nodes
EmittedIds == { text_nodes[k].id_ : k \in 1 .. Len(text_nodes) }

\* the number of emitted records of a node
TimesEmitted(id) ==
    Cardinality({ k \in 1 .. Len(text_nodes) : text_nodes[k].id_ = id })

\* the root carries content of its own (text that is not blank)
RootHasContent == HasText(nodes[0].content, blank)

(* C11: in the output of get_text_nodes the root is omitted if and only if
   it carries no content of its own, and every non-root node is emitted
   (once), with or without content. *)
C11_RootOmittedIffNoContent ==
    (step = "done") =>
        /\ (0 \in EmittedIds) <=> RootHasContent
        /\ TimesEmitted(0) <= 1
        /\ \A id \in NonRoot : TimesEmitted(id) = 1

\* C11's case: the root is emitted for its preamble, together with a heading
\* node that has no content at all
C11_Witness ==
    /\ step = "done"
    /\ 0 \in EmittedIds
    /\ \E id \in NonRoot : nodes[id].content = << >> /\ id \in EmittedIds

(* C12 as stated: whenever the root carries content after a build, it is the
   sole node of the flattened output. *)
C12_RootWithContentIsSole ==
    (step = "done" /\ RootHasContent) =>
        Len(text_nodes) = 1 /\ text_nodes[1].id_ = 0

(* C12 amended: whenever the root carries content after a build, it is
   emitted once, as the first node of the flattened output, followed by every
   heading node of the tree; it is the sole node exactly when the tree has no
   heading node. *)
C12_RootWithContentIsFirst ==
    (step = "done" /\ RootHasContent) =>
        /\ Len(text_nodes) >= 1
        /\ text_nodes[1].id_ = 0
        /\ TimesEmitted(0) = 1
        /\ Len(text_nodes) = 1 + Cardinality(NonRoot)
        /\ (Len(text_nodes) = 1) <=> (NonRoot = {})

\* C12's case: a first heading on a later page leaves the root a preamble
\* with text, and the root is emitted in front of the heading nodes
C12_Witness ==
    /\ step = "done"
    /\ toc # << >> /\ toc[1].page = 2
    /\ RootHasContent
    /\ Len(text_nodes) >= 2
    /\ text_nodes[1].id_ = 0

(* C13: every PARENT and CHILD id recorded on an emitted node is the id of an
   emitted node, a is the recorded parent of b iff b is in a's recorded child
   list, and the recorded child lists are the child lists of the built
   tree. *)
C13_RelationshipsRoundTrip ==
    (step = "done" /\ InOrder) =>
        \A k \in 1 .. Len(text_nodes) :
            LET tn == text_nodes[k] IN
            /\ IsSome(tn.parent) => Get(tn.parent) \in EmittedIds
            /\ \A j \in 1 .. Len(tn.children) : tn.children[j] \in EmittedIds
            /\ tn.children = nodes[tn.id_].children
            /\ \A m \in 1 .. Len(text_nodes) :
                  (text_nodes[m].parent = Some(tn.id_))
                     <=> (\E j \in 1 .. Len(tn.children) :
                            tn.children[j] = text_nodes[m].id_)


-----------------------------------------------------------------------------
(* context paths *)

\* an ancestor walk that stops at the parent
get_ancestors_ParentOnly(parent_id, node_id) ==
    IF IsSome(parent_id[node_id]) /\ Get(parent_id[node_id]) \in DOMAIN parent_id
    THEN << Get(parent_id[node_id]) >>
    ELSE << >>

\* get_ancestors: follow the parent links from node_id, nearest ancestor
\* first, until a node without a (known) parent; parent_id maps each node id
\* to its parent link
RECURSIVE get_ancestors(_, _)
get_ancestors(parent_id, node_id) ==
    IF IsSome(parent_id[node_id]) /\ Get(parent_id[node_id]) \in DOMAIN parent_id
    THEN << Get(parent_id[node_id]) >>
             \o get_ancestors(parent_id, Get(parent_id[node_id]))
    ELSE << >>

Reverse(s) == [ k \in 1 .. Len(s) |-> s[Len(s) + 1 - k] ]

Separator == " > "

\* a string built by joining is the sequence of its pieces
RECURSIVE Join(_)
Join(titles) ==
    IF Len(titles) = 0 THEN << >>
    ELSE IF Len(titles) = 1 THEN << titles[1] >>
    ELSE << titles[1], Separator >> \o Join(Tail(titles))

\* the titles from the topmost non-root ancestor down to the node itself,
\* joined by the separator
context_path(ns, id) ==
    LET ancestors == get_ancestors([ i \in DOMAIN ns |-> ns[i].parent ], id)
        below_root == SelectSeq(ancestors, LAMBDA a : a # 0)
        path == Reverse([ k \in 1 .. Len(below_root) |-> ns[below_root[k]].title ])
    IN Join(path \o << ns[id].title >>)

\* the "context" entry of a node's metadata: absent for the root
context_entry(ns, id) == IF id = 0 THEN None ELSE Some(context_path(ns, id))

(* C14: the context path of a non-root node is the context path of its parent
   followed by the separator and its own title, or its own title alone when
   the parent is the root; the root's title is in no path and an emitted root
   has no context entry. *)
C14_ContextPathRecurrence ==
    (step = "done") =>
        /\ \A id \in NonRoot :
              LET p == Get(nodes[id].parent) IN
              /\ context_path(nodes, id) =
                     IF p = 0 THEN << nodes[id].title >>
                     ELSE context_path(nodes, p) \o << Separator, nodes[id].title >>
              /\ RootTitle \notin Range(context_path(nodes, id))
        /\ \A k \in 1 .. Len(text_nodes) :
              IsSome(context_entry(nodes, text_nodes[k].id_)) <=> text_nodes[k].id_ # 0

C14_Witness ==
    /\ step = "done"
    /\ 0 \in EmittedIds
    /\ \E id \in NonRoot :
          /\ context_path(nodes, id) = << "A", " > ", "B", " > ", "C" >>
          /\ id \in EmittedIds


-----------------------------------------------------------------------------
(* the document graph *)

GraphNodeIds == DOMAIN graph_nodes

\* the last call was add_child
IsAddChild(c) == c.op = "add_child"

IsAddNode(c) == c.op = "add_node"

\* the number of times c is listed in the children_ids of p
TimesInChildren(g, p, c) ==
    Cardinality({ k \in 1 .. Len(g[p].children_ids) : g[p].children_ids[k] = c })

\* the nodes that list c among their children_ids
ListedUnder(g, c) == { p \in DOMAIN g : Contains(g[p].children_ids, c) }

\* the node reached from id by n parent links, if there is one
RECURSIVE ParentAfter(_, _, _)
ParentAfter(g, id, n) ==
    IF n = 0 THEN Some(id)
    ELSE IF IsSome(g[id].parent_id) /\ Get(g[id].parent_id) \in DOMAIN g
         THEN ParentAfter(g, Get(g[id].parent_id), n - 1)
         ELSE None

\* the nodes reached from ids by at most n child links
RECURSIVE Descendants(_, _, _)
Descendants(g, ids, n) ==
    IF n = 0 THEN ids
    ELSE Descendants(g, ids \cup UNION { Range(g[i].children_ids) \cap DOMAIN g : i \in ids },
                     n - 1)

OnCycle(g, id) ==
    \/ \E n \in 1 .. Cardinality(DOMAIN g) : ParentAfter(g, id, n) = Some(id)
    \/ id \in Descendants(g, Range(g[id].children_ids) \cap DOMAIN g, Cardinality(DOMAIN g))

(* C15: add_child(p, c) returns False and changes nothing when c already has
   a parent other than p, so every node is listed in the children_ids of at
   most one node. *)
C15_NoSilentReparent ==
    /\ [][ ( /\ IsAddChild(call')
             /\ call'.parent_id \in GraphNodeIds
             /\ call'.child_id \in GraphNodeIds
             /\ IsSome(graph_nodes[call'.child_id].parent_id)
             /\ graph_nodes[call'.child_id].parent_id # Some(call'.parent_id) )
           => ( call'.ret = FALSE /\ graph_nodes' = graph_nodes ) ]_vars
    /\ [](\A c \in GraphNodeIds : Cardinality(ListedUnder(graph_nodes, c)) <= 1)

(* C16: add_child with a parent id or a child id that is not in the graph
   returns False (a boolean, no error) and leaves every node's parent_id and
   children_ids as they were. *)
C16_UnknownIdFails ==
    [][ IsAddChild(call') =>
          /\ call'.ret \in BOOLEAN
          /\ ( call'.parent_id \notin GraphNodeIds \/ call'.child_id \notin GraphNodeIds )
                => ( call'.ret = FALSE /\ graph_nodes' = graph_nodes ) ]_vars

\* C16's case: add_child was called on a graph with an edge, with a known
\* parent and an unknown child, and returned False
C16_Witness ==
    /\ IsAddChild(call)
    /\ call.parent_id \in GraphNodeIds
    /\ call.child_id \notin GraphNodeIds
    /\ call.ret = FALSE
    /\ EdgeCount(graph_nodes, GraphNodeIds) >= 1

(* C17: add_child(p, c) for a pair that an earlier add_child(p, c) has
   linked is a no-op: the graph stays as it is, with c listed once under p;
   in particular a call that repeats the call before it changes nothing. *)
C17_RepeatIsNoOp ==
    [][ IsAddChild(call') =>
          /\ ( /\ call'.parent_id \in GraphNodeIds
               /\ call'.child_id \in GraphNodeIds
               /\ Contains(graph_nodes[call'.parent_id].children_ids, call'.child_id) )
                => ( /\ graph_nodes' = graph_nodes
                     /\ TimesInChildren(graph_nodes', call'.parent_id, call'.child_id) = 1 )
          /\ ( /\ IsAddChild(call)
               /\ call.parent_id = call'.parent_id
               /\ call.child_id = call'.child_id )
                => graph_nodes' = graph_nodes ]_vars

\* C17's case: add_child was called for a pair that was linked already
C17_Witness ==
    /\ IsAddChild(call)
    /\ call.parent_id \in GraphNodeIds
    /\ call.child_id \in GraphNodeIds
    /\ call.ret = FALSE
    /\ TimesInChildren(graph_nodes, call.parent_id, call.child_id) = 1
    /\ graph_nodes[call.child_id].parent_id = Some(call.parent_id)

(* C18: parent links and child lists agree: c is in the children_ids of p
   if and only if the parent_id of c is p, and no children_ids lists a node
   twice. *)
C18_EdgesConsistent ==
    \A p \in GraphNodeIds : \A c \in GraphNodeIds :
        /\ Contains(graph_nodes[p].children_ids, c)
              <=> graph_nodes[c].parent_id = Some(p)
        /\ TimesInChildren(graph_nodes, p, c) <= 1

(* C19: the edges form a tree rooted at root_id: the root has no parent and
   no node is on a cycle of parent links or of child links. *)
C19_TreeRootedAtRoot ==
    /\ root_id \in GraphNodeIds
    /\ graph_nodes[root_id].parent_id = None
    /\ \A id \in GraphNodeIds : ~OnCycle(graph_nodes, id)

(* C20: add_node returns an id that was not in the graph before the call;
   the graph has one node more and every node it had is as it was. *)
C20_AddNodeFresh ==
    [][ IsAddNode(call') =>
          /\ call'.ret \notin GraphNodeIds
          /\ Cardinality(DOMAIN graph_nodes') = Cardinality(GraphNodeIds) + 1
          /\ \A id \in GraphNodeIds : graph_nodes'[id] = graph_nodes[id] ]_vars


-----------------------------------------------------------------------------
(* order and nesting of the built tree *)

(* C26: in a tree built from a heading stream in non-decreasing position
   order, the children of every node are strictly increasing in start
   position, also when headings of one level fall on the same page. *)
C26_ChildrenStrictlyIncreasing ==
    (Built /\ InOrder) =>
        \A id \in DOMAIN nodes :
            \A k \in 1 .. (Len(nodes[id].children) - 1) :
                nodes[nodes[id].children[k]].page_num
                    < nodes[nodes[id].children[k + 1]].page_num

(* C27: in every built tree the level of a child is strictly greater than
   the level of its parent, and only the root has level 0. *)
C27_StrictNesting ==
    Built =>
        /\ nodes[0].level = 0
        /\ \A id \in NonRoot :
              /\ nodes[id].level >= 1
              /\ nodes[id].level > nodes[Get(nodes[id].parent)].level
        /\ \A p \in DOMAIN nodes : \A k \in 1 .. Len(nodes[p].children) :
              nodes[nodes[p].children[k]].level > nodes[p].level

\* C27's case: a heading tree three levels deep
C27_Witness ==
    /\ Built
    /\ \E id \in NonRoot :
          /\ nodes[id].level = 3
          /\ nodes[Get(nodes[id].parent)].level = 2
          /\ ParentChain(id, 3) = 0

(* C29: for a heading stream in non-decreasing page order over a document
   of N pages, every page 0 .. N-1 is part of the content of at least one
   node of the built tree. *)
C29_NoPageLost ==
    (Built /\ InOrder) =>
        \A p \in 0 .. (page_count - 1) :
            \E id \in DOMAIN nodes : p \in ContentPages(id)

\* C29's case: the first heading starts after the first page (the root keeps
\* the preamble), a heading is dropped for its level, and the document has
\* pages after the last heading
C29_Witness ==
    /\ Built /\ InOrder
    /\ page_count = 3
    /\ Len(toc) = 2 /\ toc[1].page = 2 /\ toc[2].page = 2
    /\ Cardinality(NonRoot) = 1
    /\ ContentPages(0) = { 0 }


-----------------------------------------------------------------------------
(* outlines outside the heading stream contract *)

\* some heading of the stream starts before the heading in front of it
OutOfOrder == \E i \in 1 .. (Len(toc) - 1) : toc[i].page > toc[i + 1].page

(* C24: a heading stream that is not in non-decreasing position order is
   rejected: no tree is built from it and no node list is produced. *)
C24_OutOfOrderRejected ==
    (OutOfOrder /\ \A i \in 1 .. Len(toc) : toc[i].level >= 1) =>
        /\ ~Built
        /\ nodes[0].children = << >>
        /\ text_nodes = << >>

(* C25: a heading whose level is at most 0 becomes a level-1 node that is a
   child of the root; it is not dropped and does not take level 0. *)
C25_LowLevelClamped ==
    (Built /\ InOrder) =>
        \A i \in 1 .. Len(toc) :
            (toc[i].level <= 0) =>
                \E id \in NodesOfHeading(i) :
                    nodes[id].level = 1 /\ nodes[id].parent = Some(0)


-----------------------------------------------------------------------------
(* repeated and failed builds *)

\* the tree of a new chunker: the root alone
NewTree == [ i \in { 0 } |-> TOCNode(RootTitle, 0, 0, None) ]

(* C28: build_toc_tree is idempotent: after a second call the tree is the
   tree of a single call, with no heading attached a second time and no
   content appended a second time. *)
C28_BuildIdempotent ==
    (step = "rebuilt" /\ InOrder) =>
        nodes = build_toc_tree(NewTree, toc, page_count)

(* C22: a build that fails leaves nothing behind: the root keeps no
   children, no end page and no content of the failed build, and no node
   list comes out of it. *)
C22_FailedBuildLeavesNothing ==
    (step \in { "failed", "failed_done" }) =>
        /\ nodes = NewTree
        /\ text_nodes = << >>

\* without a page that raises the build is build_toc_tree
BuildOrRaiseAgrees ==
    (step = "loaded") =>
        /\ build_toc_tree_or_raise(nodes, toc, page_count, {}).ns
              = build_toc_tree(nodes, toc, page_count)
        /\ ~build_toc_tree_or_raise(nodes, toc, page_count, {}).raised


-----------------------------------------------------------------------------
(* the queries of the document graph *)

IsGetContent(c) == c.op = "get_content"

IsGetAncestors(c) == c.op = "get_ancestors"

\* parent links and child lists describe one tree under the root
WellFormedGraph == C18_EdgesConsistent /\ C19_TreeRootedAtRoot

\* the node a traversal call starts from
StartOf(c) == IF IsSome(c.start_node_id) THEN Get(c.start_node_id) ELSE root_id

(* C21: a pre-order traversal yields the start node first, every node
   before its descendants, and the children of every node by increasing
   start position; it leaves the graph as it is. *)
C21_PreorderByPosition ==
    /\ [](( IsGetContent(call) /\ WellFormedGraph /\ StartOf(call) \in GraphNodeIds ) =>
            LET seq == call.ret.nodes IN
            /\ call.ret.ends
            /\ seq # << >> /\ seq[1] = StartOf(call)
            /\ \A i \in 1 .. Len(seq) : \A j \in 1 .. Len(seq) :
                  /\ ( graph_nodes[seq[j]].parent_id = Some(seq[i]) ) => i < j
                  /\ ( /\ i < j
                       /\ graph_nodes[seq[i]].parent_id = graph_nodes[seq[j]].parent_id
                       /\ seq[i] # StartOf(call) /\ seq[j] # StartOf(call) )
                        => graph_nodes[seq[i]].page_num <= graph_nodes[seq[j]].page_num)
    /\ [][ IsGetContent(call') => graph_nodes' = graph_nodes ]_vars

(* C30: get_ancestors and the pre-order traversal end on every graph that
   add_node and add_child can produce, and get_ancestors returns the
   ancestors from the parent upwards, the root last. *)
C30_QueriesTerminate ==
    /\ IsGetContent(call) => call.ret.ends
    /\ IsGetAncestors(call) =>
          LET anc == call.ret.nodes IN
          /\ call.ret.ends
          /\ \A k \in 1 .. Len(anc) :
                graph_nodes[IF k = 1 THEN call.node_id ELSE anc[k - 1]].parent_id
                    = Some(anc[k])
          /\ ( anc # << >> ) => anc[Len(anc)] = root_id


-----------------------------------------------------------------------------
(* temporary files *)

(* C23: once a call of chunk_document_by_toc_to_text_nodes has returned or
   raised, no temporary file created for a download exists any more,
   whichever step has failed. *)
C23_TempFilesRemoved ==
    (dl.pc = "idle") => temp_files = {}

====
